---- MODULE Spec2Model ----
(***************************************************************************)
(* Model of the remote object browser of omX                               *)
(* (frontend/src/pages/project-detail/ProjectDataView.tsx together with    *)
(* the storage calls of frontend/src/context/AuthContext.tsx).             *)
(*                                                                         *)
(* A JavaScript string is a sequence of one-character strings, so that     *)
(* startsWith, slice, split, replace and concatenation are computed as the *)
(* code computes them.  An optional string (prefix?: string) is a record   *)
(* [some, val].                                                            *)
(*                                                                         *)
(* One action is one event of the UI event loop: a click handler, or the   *)
(* continuation of an async handler after one await.  The state updates of *)
(* the event, the renders they cause and the effects of those renders are  *)
(* part of the same action, so every handler reads the state cells as last *)
(* committed.  A call that awaits a network answer ends the action; its    *)
(* answer is a later action, and answers arrive in any order.              *)
(*                                                                         *)
(* Seven specifications share the variables:                               *)
(*   Spec          navigation and listing (overlapping fetches);           *)
(*   SpecUpload    an upload run interleaved with navigation;              *)
(*   SpecObject    downloads and deletions interleaved with navigation;    *)
(*   SpecTransfer  every object request and its answer, in one folder;     *)
(*   SpecConnect   buckets linked while the page loads and is browsed;     *)
(*   SpecPath      navigation through folder prefixes of every shape;      *)
(*   SpecFn        the projection helpers on bounded string arguments.     *)
(***************************************************************************)
EXTENDS Integers, Sequences, FiniteSets, Bags, TLC

(***************************************************************************)
(* Bounds of the model.                                                    *)
(***************************************************************************)
MaxRawLen == 6        \* longest backend key / folder prefix of SpecFn
MaxBaseLen == 2       \* longest configured connection prefix of SpecFn
MaxSegs == 2          \* deepest folder path of SpecFn
MaxInFlight == 2      \* listing fetches in flight at once
MaxBatch == 3         \* files picked in one upload
MaxCalls == 1         \* download-url and delete calls in flight at once
MaxFolderLen == 4     \* longest folder prefix the backend returns in SpecPath

(***************************************************************************)
(* Strings.                                                                *)
(***************************************************************************)
Chars == {"a", "/"}

Undefined == [some |-> FALSE, val |-> <<>>]

Some(s) == [some |-> TRUE, val |-> s]

RECURSIVE StringsUpTo(_)
StringsUpTo(n) ==
  IF n = 0 THEN {<<>>}
  ELSE LET shorter == StringsUpTo(n - 1)
       IN  shorter \cup {Append(s, c) : s \in {t \in shorter : Len(t) = n - 1}, c \in Chars}

\* String.prototype.startsWith
StartsWith(s, p) ==
  /\ Len(p) <= Len(s)
  /\ SubSeq(s, 1, Len(p)) = p

\* String.prototype.slice(n)
SliceFrom(s, n) == SubSeq(s, n + 1, Len(s))

\* value.replace(/^\/+/, '')
RECURSIVE StripLeadingSlashes(_)
StripLeadingSlashes(s) ==
  IF s # <<>> /\ Head(s) = "/" THEN StripLeadingSlashes(Tail(s)) ELSE s

\* value.replace(/\/+$/, '')
RECURSIVE StripTrailingSlashes(_)
StripTrailingSlashes(s) ==
  IF s # <<>> /\ s[Len(s)] = "/"
  THEN StripTrailingSlashes(SubSeq(s, 1, Len(s) - 1))
  ELSE s

\* String.prototype.split('/'): the pieces between the slashes, empty ones kept
RECURSIVE SplitSlash(_)
SplitSlash(s) ==
  IF \A i \in 1..Len(s) : s[i] # "/" THEN <<s>>
  ELSE LET k == CHOOSE i \in 1..Len(s) : s[i] = "/" /\ \A j \in 1..(i - 1) : s[j] # "/"
       IN  <<SubSeq(s, 1, k - 1)>> \o SplitSlash(SubSeq(s, k + 1, Len(s)))

\* Array.prototype.filter(Boolean) on strings: the empty string is falsy
RECURSIVE FilterBoolean(_)
FilterBoolean(parts) ==
  IF parts = <<>> THEN <<>>
  ELSE IF Head(parts) = <<>> THEN FilterBoolean(Tail(parts))
       ELSE <<Head(parts)>> \o FilterBoolean(Tail(parts))

\* Array.prototype.join('/')
RECURSIVE JoinSlash(_)
JoinSlash(parts) ==
  IF parts = <<>> THEN <<>>
  ELSE IF Len(parts) = 1 THEN parts[1]
       ELSE parts[1] \o <<"/">> \o JoinSlash(Tail(parts))

(***************************************************************************)
(* The helpers of ProjectDataView.tsx.                                     *)
(***************************************************************************)
ensureTrailingSlash(value) ==
  IF ~value.some \/ value.val = <<>> THEN <<>>
  ELSE LET trimmed == StripTrailingSlashes(StripLeadingSlashes(value.val))
       IN  IF Len(trimmed) > 0 THEN trimmed \o <<"/">> ELSE <<>>

\* mutant: the trailing "/" after the joined segments is forgotten
composePrefixNoTrailingSlash(basePrefix, segments) ==
  IF Len(segments) = 0 THEN basePrefix
  ELSE basePrefix \o JoinSlash([i \in 1..Len(segments) |-> StripTrailingSlashes(segments[i])])

composePrefix(basePrefix, segments) ==
  IF Len(segments) = 0 THEN basePrefix
  ELSE LET joined == JoinSlash([i \in 1..Len(segments) |-> StripTrailingSlashes(segments[i])])
       IN  basePrefix \o joined \o <<"/">>

stripBasePrefix(fullPath, basePrefix) ==
  IF basePrefix = <<>> THEN fullPath
  ELSE IF StartsWith(fullPath, basePrefix) THEN SliceFrom(fullPath, Len(basePrefix))
       ELSE fullPath

\* prefix.length > 0 ? prefix : undefined, as handed to listStorageObjects
PrefixArgument(prefix) == IF Len(prefix) > 0 THEN Some(prefix) ELSE Undefined

\* listStorageObjects: the prefix query parameter is set only for a truthy prefix
PrefixParameter(prefixArg) ==
  IF prefixArg.some /\ prefixArg.val # <<>> THEN prefixArg ELSE Undefined

\* mutant: the empty pieces of the split are not filtered out
FolderEntryUnfiltered(entry, basePrefix) ==
  LET cleaned == StripTrailingSlashes(stripBasePrefix(entry, basePrefix))
      segmentsFromRoot == SplitSlash(cleaned)
  IN  [key |-> entry, name |-> segmentsFromRoot[Len(segmentsFromRoot)],
       segments |-> segmentsFromRoot, fullPrefix |-> entry]

\* one element of listing.folders.map(...)
FolderEntryOf(entry, basePrefix) ==
  LET cleaned == StripTrailingSlashes(stripBasePrefix(entry, basePrefix))
      segmentsFromRoot == FilterBoolean(SplitSlash(cleaned))
      name == IF Len(segmentsFromRoot) > 0
              THEN segmentsFromRoot[Len(segmentsFromRoot)]
              ELSE cleaned
  IN  [key |-> entry, name |-> name, segments |-> segmentsFromRoot, fullPrefix |-> entry]

\* mutant: the display name is taken relative to the base prefix only
FileEntryRelativeToBase(fileName, basePrefix, segments) ==
  LET relativePath == stripBasePrefix(fileName, basePrefix)
  IN  [key |-> fileName,
       name |-> IF relativePath # <<>> THEN relativePath ELSE fileName,
       objectPath |-> fileName]

\* mutant: no fallback to the full key when the display name is empty
FileEntryNoFallback(fileName, basePrefix, segments) ==
  LET currentPrefix == composePrefix(basePrefix, segments)
  IN  [key |-> fileName,
       name |-> IF currentPrefix # <<>>
                THEN stripBasePrefix(fileName, currentPrefix)
                ELSE stripBasePrefix(fileName, basePrefix),
       objectPath |-> fileName]

\* one element of listing.files.map(...); fileName is file.name, the object key
FileEntryOf(fileName, basePrefix, segments) ==
  LET currentPrefix == composePrefix(basePrefix, segments)
      relativePath == stripBasePrefix(fileName, basePrefix)
      displayName == IF currentPrefix # <<>>
                     THEN stripBasePrefix(fileName, currentPrefix)
                     ELSE relativePath
  IN  [key |-> fileName,
       name |-> IF displayName # <<>> THEN displayName ELSE fileName,
       objectPath |-> fileName]

(***************************************************************************)
(* The world outside the component: the linked storage connections of the  *)
(* project and what the listing endpoint may answer.  The backend is an    *)
(* external collaborator, so any of these answers may follow any request.  *)
(***************************************************************************)
ConnA == [id |-> "A", bucketName |-> "bucket-a", prefix |-> Some(<<"/", "p">>)]

ConnB == [id |-> "B", bucketName |-> "bucket-b", prefix |-> Undefined]

ConnectionLists == {<<>>, <<ConnA, ConnB>>}

\* "p/r/", "p/../", "p/a", "p/b"
Folder_r == <<"p", "/", "r", "/">>

Folder_dots == <<"p", "/", ".", ".", "/">>

File_a == <<"p", "/", "a">>

File_b == <<"p", "/", "b">>

Listings ==
  { [folders |-> <<>>, files |-> <<>>],
    [folders |-> <<Folder_r>>, files |-> <<File_a, File_b>>],
    [folders |-> <<Folder_dots, Folder_r>>, files |-> <<File_a>>] }

\* messages of the errors authorizedFetch and fetch throw
FetchErrors == {"Failed to fetch", "Unexpected error occurred."}

Null == "null"

NullKey == Undefined

NotShown == [some |-> FALSE, conn |-> Null, segs |-> <<>>, latest |-> FALSE, failure |-> Null,
             listing |-> Undefined, again |-> FALSE]

(***************************************************************************)
(* State of ProjectDataView (the useState cells), the requests in flight   *)
(* and history variables.                                                  *)
(***************************************************************************)
VARIABLES
  connections,           \* useState<StorageConnection[]>
  isLoadingConnections,  \* the mount-time listStorageConnections is pending
  selectedConnectionId,  \* id of the active root, or Null
  folderPath,            \* string[]
  pathRef,               \* index of the folder entry whose segments array IS
                         \* the folderPath array (Object.is), 0 when none
  folders,               \* FolderEntry[]
  files,                 \* FileEntry[]
  selectedFileKey,       \* Some(key) or NullKey
  listingError,          \* message or Null
  isListing,
  inflight,              \* bag of the listStorageObjects calls awaiting their
                         \* answer (calls with equal arguments are interchangeable)
  shown,                 \* history: the request whose answer was applied last
                         \* and the failure it reported, if any
  last,                  \* history: the last handler that ran and the connection
                         \* id it was given, if any
  isUploading,
  uploadError,           \* message or NoError
  upload,                \* position of the running handleFilesSelected
  transfers,             \* history: the grant requests and PUTs of that run
  workspaceId,           \* useParams(): the route parameter, or Null
  projectId,             \* useParams(): the route parameter, or Null
  calls,                 \* bag of the createStorageDownloadUrl,
                         \* deleteStorageObject and bucket-linking calls
                         \* awaiting their answer
  opened,                \* the URL handed to window.open last, if any
  fnIn,                  \* SpecFn: the arguments drawn for the helpers
  fnOut                  \* SpecFn: what the helper applied to them returned

navVars == <<connections, isLoadingConnections, selectedConnectionId, folderPath,
             pathRef, folders, files, selectedFileKey, listingError, isListing,
             inflight, shown>>

uploadVars == <<isUploading, uploadError, upload, transfers>>

fnVars == <<fnIn, fnOut>>

routeVars == <<workspaceId, projectId>>

objectVars == <<calls, opened>>

vars == <<navVars, uploadVars, fnVars, routeVars, objectVars, last>>

Range(seq) == {seq[i] : i \in 1..Len(seq)}

\* useMemo: connections.find((c) => c.id === selectedConnectionId) ?? null
selectedConnection ==
  IF \E i \in 1..Len(connections) : connections[i].id = selectedConnectionId
  THEN Some(connections[CHOOSE i \in 1..Len(connections) :
                          /\ connections[i].id = selectedConnectionId
                          /\ \A j \in 1..(i - 1) : connections[j].id # selectedConnectionId])
  ELSE Undefined

\* const { workspaceId, projectId } = useParams(): both are present
Configured == workspaceId # Null /\ projectId # Null

\* useMemo: files.find((file) => file.key === selectedFileKey) ?? null
selectedFile ==
  IF selectedFileKey.some /\ \E j \in 1..Len(files) : files[j].key = selectedFileKey.val
  THEN Some(files[CHOOSE j \in 1..Len(files) :
                    /\ files[j].key = selectedFileKey.val
                    /\ \A m \in 1..(j - 1) : files[m].key # selectedFileKey.val])
  ELSE Undefined

\* mutant: every crumb carries one segment more than its position
breadcrumbsOneTooDeep ==
  [k \in 1..(Len(folderPath) + 1) |->
     [label |-> IF k = 1 THEN <<"R", "o", "o", "t">> ELSE folderPath[k - 1],
      segments |-> SubSeq(folderPath, 1, IF k <= Len(folderPath) THEN k ELSE k - 1)]]

\* useMemo breadcrumbs: Root, then folderPath.slice(0, index + 1) for each index
breadcrumbs ==
  [k \in 1..(Len(folderPath) + 1) |->
     [label |-> IF k = 1 THEN <<"R", "o", "o", "t">> ELSE folderPath[k - 1],
      segments |-> SubSeq(folderPath, 1, k - 1)]]

(***************************************************************************)
(* refreshListing, up to its await: the request it sends.                  *)
(***************************************************************************)
ListingRequest(connection, segments, origin) ==
  LET basePrefix == ensureTrailingSlash(connection.prefix)
      prefix == composePrefix(basePrefix, segments)
  IN  [connection |-> connection,
       segments |-> segments,
       bucket |-> connection.bucketName,
       prefix |-> PrefixParameter(PrefixArgument(prefix)),
       origin |-> origin,
       latest |-> TRUE]

\* history bookkeeping: a newly issued request supersedes those in flight
Superseded(bag) ==
  LET olds == {[r EXCEPT !.latest = FALSE] : r \in BagToSet(bag)}
  IN  [o \in olds |-> CopiesIn(o, bag) + CopiesIn([o EXCEPT !.latest = TRUE], bag)]

RECURSIVE Issue(_, _)
Issue(bag, requests) ==
  IF requests = <<>> THEN bag
  ELSE Issue(Superseded(bag) (+) SetToBag({Head(requests)}), Tail(requests))

Answered(bag, request) == bag (-) SetToBag({request})

InFlight == BagCardinality(inflight)

(***************************************************************************)
(* The two effects.  A change of selectedConnectionId renders once with    *)
(* the new connection and the folderPath of that render; the reset effect  *)
(* queues the resets and the listing effect, in the same commit, still     *)
(* sees the old folderPath.  The resets render again with a fresh []       *)
(* array, which re-runs the listing effect.                                *)
(***************************************************************************)
\* useEffect(..., [selectedConnectionId])
ResetEffect ==
  [folderPath |-> <<>>, files |-> <<>>, folders |-> <<>>,
   selectedFileKey |-> NullKey, listingError |-> Null]

\* mutant: the listing effect does not run again after the resets
ListingEffectOnce(connection, pathOfRender) ==
  IF ~connection.some THEN <<>>
  ELSE <<ListingRequest(connection.val, pathOfRender, "view")>>

\* useEffect(..., [selectedConnection, folderPath, refreshListing]) for the
\* renders that follow a change of selectedConnectionId
ListingEffectOnSwitch(connection, pathOfRender) ==
  IF ~connection.some THEN <<>>
  ELSE <<ListingRequest(connection.val, pathOfRender, "view"),
         ListingRequest(connection.val, ResetEffect.folderPath, "view")>>

\* mutant: the effect lists the path of the previous render
ListingEffectOnStalePath(connection, newPath) ==
  IF ~connection.some THEN <<>>
  ELSE <<ListingRequest(connection.val, folderPath, "view")>>

\* the same effect after a render in which only folderPath changed
ListingEffectOnPath(connection, newPath) ==
  IF ~connection.some THEN <<>>
  ELSE <<ListingRequest(connection.val, newPath, "view")>>

\* mutant: the selection is kept whatever the new listing holds
KeepSelection(previous, fileEntries) == previous

\* setSelectedFileKey((previous) => previous && fileEntries.some(...) ? previous : null)
PreserveSelection(previous, fileEntries) ==
  IF previous.some /\ \E i \in 1..Len(fileEntries) : fileEntries[i].key = previous.val
  THEN previous
  ELSE NullKey

\* mutant: a file whose key is also listed as a folder prefix is left out
ListingSuccessDeduplicated(request, listing) ==
  LET basePrefix == ensureTrailingSlash(request.connection.prefix)
      folderEntries == [i \in 1..Len(listing.folders) |->
                          FolderEntryOf(listing.folders[i], basePrefix)]
      kept == SelectSeq(listing.files, LAMBDA f : f \notin Range(listing.folders))
      fileEntries == [i \in 1..Len(kept) |-> FileEntryOf(kept[i], basePrefix, request.segments)]
  IN  [folders |-> folderEntries,
       files |-> fileEntries,
       selectedFileKey |-> PreserveSelection(selectedFileKey, fileEntries),
       listingError |-> listingError]

\* mutant: the new entries are appended to the ones held
ListingSuccessAccumulating(request, listing) ==
  LET basePrefix == ensureTrailingSlash(request.connection.prefix)
      folderEntries == [i \in 1..Len(listing.folders) |->
                          FolderEntryOf(listing.folders[i], basePrefix)]
      fileEntries == [i \in 1..Len(listing.files) |->
                        FileEntryOf(listing.files[i], basePrefix, request.segments)]
  IN  [folders |-> folders \o folderEntries,
       files |-> files \o fileEntries,
       selectedFileKey |-> PreserveSelection(selectedFileKey, fileEntries),
       listingError |-> listingError]

\* the try branch of refreshListing after the await
ListingSuccess(request, listing) ==
  LET basePrefix == ensureTrailingSlash(request.connection.prefix)
      folderEntries == [i \in 1..Len(listing.folders) |->
                          FolderEntryOf(listing.folders[i], basePrefix)]
      fileEntries == [i \in 1..Len(listing.files) |->
                        FileEntryOf(listing.files[i], basePrefix, request.segments)]
  IN  [folders |-> folderEntries,
       files |-> fileEntries,
       selectedFileKey |-> PreserveSelection(selectedFileKey, fileEntries),
       listingError |-> listingError]

\* mutant: the catch branch forgets setFiles([])
ListingFailureKeepsFiles(message) ==
  [folders |-> <<>>, files |-> files, selectedFileKey |-> NullKey,
   listingError |-> message]

\* the catch branch of refreshListing
ListingFailure(message) ==
  [folders |-> <<>>, files |-> <<>>, selectedFileKey |-> NullKey,
   listingError |-> message]

(***************************************************************************)
(* Initial state: the component is mounted, its mount effects have run     *)
(* (no connection is selected, so the listing effect returned early) and   *)
(* the listStorageConnections call of the mount effect is pending.         *)
(***************************************************************************)
NoError == [text |-> Null, name |-> <<>>]

Idle == [phase |-> "idle", batch |-> <<>>, index |-> 0,
         connection |-> Undefined, segments |-> <<>>]

NoInput == [base |-> Undefined, segments |-> <<>>, raw |-> <<>>]

NoOutput == [kind |-> "none"]

NavInit ==
  /\ connections = <<>>
  /\ isLoadingConnections = TRUE
  /\ selectedConnectionId = Null
  /\ folderPath = <<>>
  /\ pathRef = 0
  /\ folders = <<>>
  /\ files = <<>>
  /\ selectedFileKey = NullKey
  /\ listingError = Null
  /\ isListing = FALSE
  /\ inflight = EmptyBag
  /\ shown = NotShown

UploadInit ==
  /\ isUploading = FALSE
  /\ uploadError = NoError
  /\ upload = Idle
  /\ transfers = <<>>

\* the route of the page carries both identifiers; useParams types them as
\* possibly undefined and every handler guards against that
RouteInit ==
  /\ workspaceId \in {"ws", Null}
  /\ projectId \in {"proj", Null}

ObjectInit ==
  /\ calls = EmptyBag
  /\ opened = Undefined

Init ==
  /\ NavInit
  /\ UploadInit
  /\ RouteInit
  /\ ObjectInit
  /\ fnIn = NoInput
  /\ fnOut = NoOutput
  /\ last = [name |-> "mount", target |-> Null]

(***************************************************************************)
(* Navigation.                                                             *)
(***************************************************************************)
\* the state after the renders and effects that follow a change of
\* selectedConnectionId to newId (Null included)
AfterConnectionChange(newConnections, newId) ==
  LET connection ==
        IF \E i \in 1..Len(newConnections) : newConnections[i].id = newId
        THEN Some(CHOOSE c \in Range(newConnections) : c.id = newId)
        ELSE Undefined
      requests == ListingEffectOnSwitch(connection, folderPath)
  IN  /\ InFlight + Len(requests) <= MaxInFlight
      /\ selectedConnectionId' = newId
      /\ folderPath' = ResetEffect.folderPath
      /\ pathRef' = 0
      /\ files' = ResetEffect.files
      /\ folders' = ResetEffect.folders
      /\ selectedFileKey' = ResetEffect.selectedFileKey
      /\ listingError' = ResetEffect.listingError
      /\ isListing' = (isListing \/ requests # <<>>)
      /\ inflight' = Issue(inflight, requests)
      /\ shown' = NotShown

\* the state after setConnections(newConnections) and
\* setSelectedConnectionId(newId).  A changed id runs the reset effect and the
\* listing effect.  Under an unchanged id the selectedConnection found in the
\* new array is another object than the one of the last render, so the
\* listing effect runs again for the path as it is.
AfterConnectionsReplaced(newConnections, newId) ==
  IF newId # selectedConnectionId
  THEN AfterConnectionChange(newConnections, newId)
  ELSE LET connection ==
             IF \E i \in 1..Len(newConnections) : newConnections[i].id = newId
             THEN Some(CHOOSE c \in Range(newConnections) : c.id = newId)
             ELSE Undefined
           requests == ListingEffectOnPath(connection, folderPath)
       IN  /\ InFlight + Len(requests) <= MaxInFlight
           /\ isListing' = (isListing \/ requests # <<>>)
           /\ listingError' = IF requests # <<>> THEN Null ELSE listingError
           /\ inflight' = Issue(inflight, requests)
           /\ UNCHANGED <<selectedConnectionId, folderPath, pathRef, files, folders,
                          selectedFileKey, shown>>

\* fetchedConnections.length > 0 ? (current ?? fetchedConnections[0].id) : null
selectedAfterLoad(current, fetchedConnections) ==
  IF Len(fetchedConnections) > 0
  THEN IF current # Null THEN current ELSE fetchedConnections[1].id
  ELSE Null

\* .then of the mount effect's listStorageConnections
ConnectionsLoaded(fetchedConnections) ==
  /\ Configured
  /\ isLoadingConnections
  /\ isLoadingConnections' = FALSE
  /\ connections' = fetchedConnections
  /\ AfterConnectionsReplaced(fetchedConnections,
                              selectedAfterLoad(selectedConnectionId, fetchedConnections))
  /\ last' = [name |-> "ConnectionsLoaded", target |-> Null]
  /\ UNCHANGED <<routeVars, objectVars>>
  /\ UNCHANGED <<uploadVars, fnVars>>

\* .catch of the mount effect's listStorageConnections
ConnectionsFailed ==
  /\ Configured
  /\ isLoadingConnections
  /\ isLoadingConnections' = FALSE
  /\ connections' = <<>>
  /\ AfterConnectionsReplaced(<<>>, Null)
  /\ last' = [name |-> "ConnectionsFailed", target |-> Null]
  /\ UNCHANGED <<routeVars, objectVars>>
  /\ UNCHANGED <<uploadVars, fnVars>>

\* connection button onClick: setSelectedConnectionId(connection.id); React
\* bails out when the id is the one already selected
SelectConnection(i) ==
  /\ i \in 1..Len(connections)
  /\ connections[i].id # selectedConnectionId
  /\ AfterConnectionChange(connections, connections[i].id)
  /\ last' = [name |-> "SelectConnection", target |-> connections[i].id]
  /\ UNCHANGED <<routeVars, objectVars>>
  /\ UNCHANGED <<connections, isLoadingConnections, uploadVars, fnVars>>

\* the state after a render in which folderPath is a new array
AfterPathChange(newPath, newRef) ==
  LET requests == ListingEffectOnPath(selectedConnection, newPath)
  IN  /\ InFlight + Len(requests) <= MaxInFlight
      /\ folderPath' = newPath
      /\ pathRef' = newRef
      /\ selectedFileKey' = NullKey
      /\ isListing' = (isListing \/ requests # <<>>)
      /\ listingError' = IF requests # <<>> THEN Null ELSE listingError
      /\ inflight' = Issue(inflight, requests)

\* folder button onClick.  Clicking the entry whose segments array already is
\* the folderPath array leaves the state cell as it is: no render, no effect.
handleSelectFolder(i) ==
  /\ selectedConnection.some
  /\ i \in 1..Len(folders)
  /\ IF pathRef = i
     THEN /\ selectedFileKey' = NullKey
          /\ UNCHANGED <<folderPath, pathRef, isListing, listingError, inflight>>
     ELSE AfterPathChange(folders[i].segments, i)
  /\ last' = [name |-> "handleSelectFolder", target |-> Null]
  /\ UNCHANGED <<routeVars, objectVars>>
  /\ UNCHANGED <<connections, isLoadingConnections, selectedConnectionId, folders, files,
                 shown, uploadVars, fnVars>>

\* breadcrumb button onClick; the buttons are rendered if breadcrumbs.length > 1
handleBreadcrumbClick(k) ==
  /\ Len(breadcrumbs) > 1
  /\ k \in 1..Len(breadcrumbs)
  /\ AfterPathChange(breadcrumbs[k].segments, 0)
  /\ last' = [name |-> "handleBreadcrumbClick", target |-> Null]
  /\ UNCHANGED <<routeVars, objectVars>>
  /\ UNCHANGED <<connections, isLoadingConnections, selectedConnectionId, folders, files,
                 shown, uploadVars, fnVars>>

\* file row onClick: setSelectedFileKey(file.key)
SelectFile(j) ==
  /\ selectedConnection.some
  /\ j \in 1..Len(files)
  /\ selectedFileKey' = Some(files[j].key)
  /\ last' = [name |-> "SelectFile", target |-> Null]
  /\ UNCHANGED <<routeVars, objectVars>>
  /\ UNCHANGED <<connections, isLoadingConnections, selectedConnectionId, folderPath,
                 pathRef, folders, files, listingError, isListing, inflight, shown,
                 uploadVars, fnVars>>

\* Refresh button onClick: if (selectedConnection) refreshListing(...), which
\* returns at once without the route identifiers
RefreshClick ==
  /\ IF selectedConnection.some /\ Configured
     THEN /\ InFlight < MaxInFlight
          /\ isListing' = TRUE
          /\ listingError' = Null
          /\ inflight' = Issue(inflight,
                               <<ListingRequest(selectedConnection.val, folderPath, "view")>>)
     ELSE UNCHANGED <<isListing, listingError, inflight>>
  /\ last' = [name |-> "RefreshClick", target |-> Null]
  /\ UNCHANGED <<routeVars, objectVars>>
  /\ UNCHANGED <<connections, isLoadingConnections, selectedConnectionId, folderPath,
                 pathRef, folders, files, selectedFileKey, shown, uploadVars, fnVars>>

ShownOf(request, failure) ==
  [some |-> TRUE, conn |-> request.connection.id, segs |-> request.segments,
   latest |-> request.latest, failure |-> failure, listing |-> Undefined, again |-> FALSE]

\* history: the answer applied, and whether it is the answer applied before
\* for the same connection and path
ShownListing(request, listing) ==
  [ShownOf(request, Null) EXCEPT
     !.listing = Some(listing),
     !.again = /\ shown.listing = Some(listing)
               /\ shown.conn = request.connection.id
               /\ shown.segs = request.segments]

\* the handleFilesSelected that awaited this refreshListing runs its finally
UploadAfterRefresh(request) ==
  IF request.origin = "upload"
  THEN /\ isUploading' = FALSE
       /\ upload' = [upload EXCEPT !.phase = "done"]
       /\ UNCHANGED <<uploadError, transfers>>
  ELSE UNCHANGED uploadVars

\* listStorageObjects resolves: the rest of refreshListing's try, and finally
ListingResolved(request, listing) ==
  /\ BagIn(request, inflight)
  /\ LET applied == ListingSuccess(request, listing)
     IN  /\ folders' = applied.folders
         /\ files' = applied.files
         /\ selectedFileKey' = applied.selectedFileKey
         /\ listingError' = applied.listingError
  /\ pathRef' = 0
  /\ isListing' = FALSE
  /\ shown' = ShownListing(request, listing)
  /\ inflight' = Answered(inflight, request)
  /\ UploadAfterRefresh(request)
  /\ last' = [name |-> "ListingResolved", target |-> Null]
  /\ UNCHANGED <<routeVars, objectVars>>
  /\ UNCHANGED <<connections, isLoadingConnections, selectedConnectionId, folderPath, fnVars>>

\* mutant: the catch sends the fetch again
ListingFailedRetried(request, message) ==
  /\ BagIn(request, inflight)
  /\ LET applied == ListingFailure(message)
     IN  /\ folders' = applied.folders
         /\ files' = applied.files
         /\ selectedFileKey' = applied.selectedFileKey
         /\ listingError' = applied.listingError
  /\ pathRef' = 0
  /\ isListing' = TRUE
  /\ shown' = ShownOf(request, message)
  /\ inflight' = inflight
  /\ UNCHANGED uploadVars
  /\ last' = [name |-> "ListingFailed", target |-> Null]
  /\ UNCHANGED <<routeVars, objectVars>>
  /\ UNCHANGED <<connections, isLoadingConnections, selectedConnectionId, folderPath, fnVars>>

\* listStorageObjects rejects: refreshListing's catch, and finally
ListingFailed(request, message) ==
  /\ BagIn(request, inflight)
  /\ LET applied == ListingFailure(message)
     IN  /\ folders' = applied.folders
         /\ files' = applied.files
         /\ selectedFileKey' = applied.selectedFileKey
         /\ listingError' = applied.listingError
  /\ pathRef' = 0
  /\ isListing' = FALSE
  /\ shown' = ShownOf(request, message)
  /\ inflight' = Answered(inflight, request)
  /\ UploadAfterRefresh(request)
  /\ last' = [name |-> "ListingFailed", target |-> Null]
  /\ UNCHANGED <<routeVars, objectVars>>
  /\ UNCHANGED <<connections, isLoadingConnections, selectedConnectionId, folderPath, fnVars>>

NavNext ==
  \/ \E list \in ConnectionLists : ConnectionsLoaded(list)
  \/ ConnectionsFailed
  \/ \E i \in 1..Len(connections) : SelectConnection(i)
  \/ \E i \in 1..Len(folders) : handleSelectFolder(i)
  \/ \E k \in 1..Len(breadcrumbs) : handleBreadcrumbClick(k)
  \/ \E j \in 1..Len(files) : SelectFile(j)
  \/ RefreshClick
  \/ \E request \in BagToSet(inflight), listing \in Listings : ListingResolved(request, listing)
  \/ \E request \in BagToSet(inflight), message \in FetchErrors : ListingFailed(request, message)

(***************************************************************************)
(* Upload: handleFilesSelected, one step per await.  The handler keeps the *)
(* selectedConnection and folderPath of the render in which the files were *)
(* picked.  One run at a time is modelled.                                 *)
(***************************************************************************)
Digits == <<"1", "2", "3", "4", "5", "6", "7", "8", "9">>

\* the i-th file of the picker: File.name and File.type ('' when unknown)
PickedFile(i) ==
  [name |-> <<"f", Digits[i]>>, type |-> IF i % 2 = 1 THEN "text/plain" ELSE ""]

FileList(n) == [i \in 1..n |-> PickedFile(i)]

\* error instanceof Error ? error.message : 'Upload failed.'
Message(text) == [text |-> text, name |-> <<>>]

\* new Error(`Failed to upload ${file.name}`)
FailedToUpload(name) == [text |-> "Failed to upload ", name |-> name]

\* file.type || 'application/octet-stream'
ContentTypeOf(file) == IF file.type # "" THEN file.type ELSE "application/octet-stream"

\* mutant: the object path is composed without the folder path
GrantRequestAtBase(run) ==
  LET file == run.batch[run.index]
      basePrefix == ensureTrailingSlash(run.connection.val.prefix)
  IN  [op |-> "grant", index |-> run.index,
       bucketName |-> run.connection.val.bucketName,
       objectPath |-> basePrefix \o file.name,
       contentType |-> ContentTypeOf(file)]

\* mutant: the object path is composed from the connection and path shown
\* when the request is sent
GrantRequestAtCurrentView(run) ==
  LET file == run.batch[run.index]
      connection == IF selectedConnection.some THEN selectedConnection.val
                    ELSE run.connection.val
      basePrefix == ensureTrailingSlash(connection.prefix)
      currentPrefix == composePrefix(basePrefix, folderPath)
  IN  [op |-> "grant", index |-> run.index,
       bucketName |-> connection.bucketName,
       objectPath |-> currentPrefix \o file.name,
       contentType |-> ContentTypeOf(file)]

\* the payload of createStorageUploadUrl for the file at upload.index
GrantRequest(run) ==
  LET file == run.batch[run.index]
      basePrefix == ensureTrailingSlash(run.connection.val.prefix)
      currentPrefix == composePrefix(basePrefix, run.segments)
  IN  [op |-> "grant", index |-> run.index,
       bucketName |-> run.connection.val.bucketName,
       objectPath |-> currentPrefix \o file.name,
       contentType |-> ContentTypeOf(file)]

\* fetch(url, {method: 'PUT', headers: {'Content-Type': ...}, body: file});
\* the signed URL is the one the grant of this file returned
PutRequest(run, grant) ==
  [op |-> "put", index |-> run.index,
   bucketName |-> grant.bucketName,
   objectPath |-> grant.objectPath,
   contentType |-> ContentTypeOf(run.batch[run.index])]

Outcome(op, run) ==
  [op |-> op, index |-> run.index, bucketName |-> "", objectPath |-> <<>>, contentType |-> ""]

LastGrant == transfers[CHOOSE k \in 1..Len(transfers) :
                         /\ transfers[k].op = "grant"
                         /\ \A m \in (k + 1)..Len(transfers) : transfers[m].op # "grant"]

\* mutant: the busy flag is raised before the guard
handleFilesSelectedFlagFirst(n) ==
  /\ n \in 1..MaxBatch
  /\ upload.phase \in {"idle", "done", "failed"}
  /\ IF ~selectedConnection.some \/ ~Configured
     THEN /\ isUploading' = TRUE
          /\ UNCHANGED <<uploadError, upload, transfers>>
     ELSE /\ isUploading' = TRUE
          /\ uploadError' = NoError
          /\ LET run == [phase |-> "grant", batch |-> FileList(n), index |-> 1,
                         connection |-> selectedConnection, segments |-> folderPath]
             IN  /\ upload' = run
                 /\ transfers' = <<GrantRequest(run)>>
  /\ last' = [name |-> "handleFilesSelected", target |-> Null]
  /\ UNCHANGED <<routeVars, objectVars>>
  /\ UNCHANGED <<navVars, fnVars>>

\* input onChange; the Upload button that opens the picker is always there
handleFilesSelected(n) ==
  /\ n \in 1..MaxBatch
  /\ upload.phase \in {"idle", "done", "failed"}
  /\ IF ~selectedConnection.some \/ ~Configured
     THEN UNCHANGED uploadVars
     ELSE /\ isUploading' = TRUE
          /\ uploadError' = NoError
          /\ LET run == [phase |-> "grant", batch |-> FileList(n), index |-> 1,
                         connection |-> selectedConnection, segments |-> folderPath]
             IN  /\ upload' = run
                 /\ transfers' = <<GrantRequest(run)>>
  /\ last' = [name |-> "handleFilesSelected", target |-> Null]
  /\ UNCHANGED <<routeVars, objectVars>>
  /\ UNCHANGED <<navVars, fnVars>>

\* catch and finally of handleFilesSelected
UploadAborted(error) ==
  /\ uploadError' = error
  /\ isUploading' = FALSE
  /\ upload' = [upload EXCEPT !.phase = "failed"]

\* createStorageUploadUrl resolves: the PUT is sent
GrantResolved ==
  /\ upload.phase = "grant"
  /\ upload' = [upload EXCEPT !.phase = "put"]
  /\ transfers' = transfers \o <<Outcome("granted", upload), PutRequest(upload, LastGrant)>>
  /\ last' = [name |-> "GrantResolved", target |-> Null]
  /\ UNCHANGED <<routeVars, objectVars>>
  /\ UNCHANGED <<navVars, fnVars, isUploading, uploadError>>

\* mutant: the PUT is sent although the grant request was rejected
GrantFailedPutAnyway(message) ==
  /\ upload.phase = "grant"
  /\ upload' = [upload EXCEPT !.phase = "put"]
  /\ transfers' = transfers \o <<Outcome("grant-failed", upload), PutRequest(upload, LastGrant)>>
  /\ last' = [name |-> "GrantFailed", target |-> Null]
  /\ UNCHANGED <<routeVars, objectVars>>
  /\ UNCHANGED <<navVars, fnVars, isUploading, uploadError>>

\* createStorageUploadUrl rejects
GrantFailed(message) ==
  /\ upload.phase = "grant"
  /\ UploadAborted(Message(message))
  /\ transfers' = Append(transfers, Outcome("grant-failed", upload))
  /\ last' = [name |-> "GrantFailed", target |-> Null]
  /\ UNCHANGED <<routeVars, objectVars>>
  /\ UNCHANGED <<navVars, fnVars>>

\* the PUT answers with a success status and a file remains: next grant
PutSucceeded ==
  /\ upload.phase = "put"
  /\ upload.index < Len(upload.batch)
  /\ LET run == [upload EXCEPT !.phase = "grant", !.index = upload.index + 1]
     IN  /\ upload' = run
         /\ transfers' = transfers \o <<Outcome("put-ok", upload), GrantRequest(run)>>
  /\ last' = [name |-> "PutSucceeded", target |-> Null]
  /\ UNCHANGED <<routeVars, objectVars>>
  /\ UNCHANGED <<navVars, fnVars, isUploading, uploadError>>

\* the PUT of the last file answers with a success status:
\* await refreshListing(selectedConnection, folderPath) of the handler's render
LastPutSucceeded ==
  /\ upload.phase = "put"
  /\ upload.index = Len(upload.batch)
  /\ InFlight < MaxInFlight
  /\ upload' = [upload EXCEPT !.phase = "refresh"]
  /\ transfers' = Append(transfers, Outcome("put-ok", upload))
  /\ isListing' = TRUE
  /\ listingError' = Null
  /\ inflight' = Issue(inflight,
                       <<ListingRequest(upload.connection.val, upload.segments, "upload")>>)
  /\ last' = [name |-> "LastPutSucceeded", target |-> Null]
  /\ UNCHANGED <<routeVars, objectVars>>
  /\ UNCHANGED <<connections, isLoadingConnections, selectedConnectionId, folderPath,
                 pathRef, folders, files, selectedFileKey, shown, isUploading, uploadError,
                 fnVars>>

\* the PUT answers with a status that is not ok
PutRefused ==
  /\ upload.phase = "put"
  /\ UploadAborted(FailedToUpload(upload.batch[upload.index].name))
  /\ transfers' = Append(transfers, Outcome("put-failed", upload))
  /\ last' = [name |-> "PutRefused", target |-> Null]
  /\ UNCHANGED <<routeVars, objectVars>>
  /\ UNCHANGED <<navVars, fnVars>>

\* the PUT's fetch rejects (network error)
PutRejected(message) ==
  /\ upload.phase = "put"
  /\ UploadAborted(Message(message))
  /\ transfers' = Append(transfers, Outcome("put-failed", upload))
  /\ last' = [name |-> "PutRejected", target |-> Null]
  /\ UNCHANGED <<routeVars, objectVars>>
  /\ UNCHANGED <<navVars, fnVars>>

(***************************************************************************)
(* Download and delete of one object.  Each handler keeps the              *)
(* selectedConnection and folderPath of the render whose button was        *)
(* clicked.  The buttons of a file are in its row, rendered under a        *)
(* selected connection, and in the details panel of selectedFile.          *)
(***************************************************************************)
ButtonsRendered(j) ==
  /\ j \in 1..Len(files)
  /\ \/ selectedConnection.some
     \/ (selectedFile.some /\ selectedFile.val = files[j])

\* the payload of createStorageDownloadUrl / deleteStorageObject, with the
\* connection and path the handler would refresh
ObjectCall(op, connection, segments, file) ==
  [op |-> op, connection |-> connection, segments |-> segments,
   bucketName |-> connection.bucketName, objectPath |-> file.objectPath]

\* the signed URL the backend returns for a download-url request
SignedUrl(call) ==
  Some([method |-> "GET", bucketName |-> call.bucketName, objectPath |-> call.objectPath])

\* mutant: a URL is asked for only when none has been opened yet
handleDownloadCached(j) ==
  /\ ButtonsRendered(j)
  /\ IF selectedConnection.some /\ Configured /\ ~opened.some
     THEN /\ BagCardinality(calls) < MaxCalls
          /\ calls' = calls (+) SetToBag({ObjectCall("download", selectedConnection.val,
                                                     folderPath, files[j])})
     ELSE UNCHANGED calls
  /\ last' = [name |-> "handleDownload", target |-> Null]
  /\ UNCHANGED <<navVars, uploadVars, fnVars, routeVars, opened>>

\* Download button onClick, to the await
handleDownload(j) ==
  /\ ButtonsRendered(j)
  /\ IF selectedConnection.some /\ Configured
     THEN /\ BagCardinality(calls) < MaxCalls
          /\ calls' = calls (+) SetToBag({ObjectCall("download", selectedConnection.val,
                                                     folderPath, files[j])})
     ELSE UNCHANGED calls
  /\ last' = [name |-> "handleDownload", target |-> Null]
  /\ UNCHANGED <<navVars, uploadVars, fnVars, routeVars, opened>>

\* createStorageDownloadUrl resolves: window.open(url, ...)
DownloadGranted(call) ==
  /\ BagIn(call, calls)
  /\ call.op = "download"
  /\ calls' = calls (-) SetToBag({call})
  /\ opened' = SignedUrl(call)
  /\ last' = [name |-> "DownloadGranted", target |-> Null]
  /\ UNCHANGED <<navVars, uploadVars, fnVars, routeVars>>

\* mutant: the catch clears the view as the catch of refreshListing does
DownloadFailedClearsView(call, message) ==
  /\ BagIn(call, calls)
  /\ call.op = "download"
  /\ calls' = calls (-) SetToBag({call})
  /\ LET applied == ListingFailure(message)
     IN  /\ folders' = applied.folders
         /\ files' = applied.files
         /\ selectedFileKey' = applied.selectedFileKey
         /\ listingError' = applied.listingError
  /\ last' = [name |-> "DownloadFailed", target |-> Null]
  /\ UNCHANGED <<connections, isLoadingConnections, selectedConnectionId, folderPath,
                 pathRef, isListing, inflight, shown,
                 uploadVars, fnVars, routeVars, opened>>

\* createStorageDownloadUrl rejects: setListingError(error.message)
DownloadFailed(call, message) ==
  /\ BagIn(call, calls)
  /\ call.op = "download"
  /\ calls' = calls (-) SetToBag({call})
  /\ listingError' = message
  /\ last' = [name |-> "DownloadFailed", target |-> Null]
  /\ UNCHANGED <<connections, isLoadingConnections, selectedConnectionId, folderPath,
                 pathRef, folders, files, selectedFileKey, isListing, inflight, shown,
                 uploadVars, fnVars, routeVars, opened>>

\* Delete button onClick, to the await
handleDelete(j) ==
  /\ ButtonsRendered(j)
  /\ IF selectedConnection.some /\ Configured
     THEN /\ BagCardinality(calls) < MaxCalls
          /\ calls' = calls (+) SetToBag({ObjectCall("delete", selectedConnection.val,
                                                     folderPath, files[j])})
     ELSE UNCHANGED calls
  /\ last' = [name |-> "handleDelete", target |-> Null]
  /\ UNCHANGED <<navVars, uploadVars, fnVars, routeVars, opened>>

\* deleteStorageObject resolves: await refreshListing(selectedConnection,
\* folderPath) with the connection and path of the handler's render
DeleteResolved(call) ==
  /\ BagIn(call, calls)
  /\ call.op = "delete"
  /\ InFlight < MaxInFlight
  /\ calls' = calls (-) SetToBag({call})
  /\ isListing' = TRUE
  /\ listingError' = Null
  /\ inflight' = Issue(inflight, <<ListingRequest(call.connection, call.segments, "delete")>>)
  /\ last' = [name |-> "DeleteResolved", target |-> Null]
  /\ UNCHANGED <<connections, isLoadingConnections, selectedConnectionId, folderPath,
                 pathRef, folders, files, selectedFileKey, shown,
                 uploadVars, fnVars, routeVars, opened>>

\* deleteStorageObject rejects: setListingError(error.message)
DeleteFailed(call, message) ==
  /\ BagIn(call, calls)
  /\ call.op = "delete"
  /\ calls' = calls (-) SetToBag({call})
  /\ listingError' = message
  /\ last' = [name |-> "DeleteFailed", target |-> Null]
  /\ UNCHANGED <<connections, isLoadingConnections, selectedConnectionId, folderPath,
                 pathRef, folders, files, selectedFileKey, isListing, inflight, shown,
                 uploadVars, fnVars, routeVars, opened>>

(***************************************************************************)
(* Linking a bucket: handleCreateConnection, one step per await.  The      *)
(* pending call stands for isLinking; the form and connectError belong to  *)
(* the modal and are not part of the browsing state.                       *)
(***************************************************************************)
\* the submitted form: the bucket name typed, trimmed
ConnectionForms == {"", "bucket-c"}

\* the connection createStorageConnection returns for the form
ConnC == [id |-> "C", bucketName |-> "bucket-c", prefix |-> Undefined]

\* what listStorageConnections may answer after the creation
RefreshedLists == ConnectionLists \cup {<<ConnC>>, <<ConnA, ConnB, ConnC>>}

LinkCall(op, newConnection) ==
  [op |-> op, connection |-> newConnection, segments |-> <<>>,
   bucketName |-> newConnection.bucketName, objectPath |-> <<>>]

isLinking == \E call \in BagToSet(calls) : call.op \in {"create", "connections"}

\* refreshed.find(id matches, or bucket and prefix match) ?? refreshed[0]
newlyLinked(refreshed, newConnection) ==
  LET matches == {i \in 1..Len(refreshed) :
                    \/ refreshed[i].id = newConnection.id
                    \/ /\ refreshed[i].bucketName = newConnection.bucketName
                       /\ refreshed[i].prefix.val = newConnection.prefix.val}
  IN  IF matches # {}
      THEN Some(refreshed[CHOOSE i \in matches : \A j \in matches : i <= j])
      ELSE IF Len(refreshed) > 0 THEN Some(refreshed[1]) ELSE Undefined

\* form onSubmit, to the first await; the submit button is disabled while
\* isLinking
handleCreateConnection(bucketName) ==
  /\ ~isLinking
  /\ IF ~Configured \/ bucketName = ""
     THEN UNCHANGED calls
     ELSE /\ BagCardinality(calls) < MaxCalls
          /\ calls' = calls (+) SetToBag({LinkCall("create", ConnC)})
  /\ last' = [name |-> "handleCreateConnection", target |-> Null]
  /\ UNCHANGED <<navVars, uploadVars, fnVars, routeVars, opened>>

\* createStorageConnection resolves: await listStorageConnections
ConnectionCreated(call) ==
  /\ BagIn(call, calls)
  /\ call.op = "create"
  /\ calls' = (calls (-) SetToBag({call})) (+) SetToBag({LinkCall("connections", call.connection)})
  /\ last' = [name |-> "ConnectionCreated", target |-> Null]
  /\ UNCHANGED <<navVars, uploadVars, fnVars, routeVars, opened>>

\* listStorageConnections resolves: setConnections(refreshed),
\* setSelectedConnectionId(newlyLinked?.id ?? null)
ConnectionsRefreshed(call, refreshed) ==
  /\ BagIn(call, calls)
  /\ call.op = "connections"
  /\ calls' = calls (-) SetToBag({call})
  /\ connections' = refreshed
  /\ LET linked == newlyLinked(refreshed, call.connection)
     IN  AfterConnectionsReplaced(refreshed, IF linked.some THEN linked.val.id ELSE Null)
  /\ last' = [name |-> "ConnectionsRefreshed", target |-> Null]
  /\ UNCHANGED <<isLoadingConnections, uploadVars, fnVars, routeVars, opened>>

\* either await rejects: setConnectError(...)
LinkFailed(call) ==
  /\ BagIn(call, calls)
  /\ call.op \in {"create", "connections"}
  /\ calls' = calls (-) SetToBag({call})
  /\ last' = [name |-> "LinkFailed", target |-> Null]
  /\ UNCHANGED <<navVars, uploadVars, fnVars, routeVars, opened>>

\* SpecConnect: buckets are linked while the page loads and is browsed.
\* Connections are switched and folders entered when no listing is in flight.
ConnectNext ==
  \/ \E list \in ConnectionLists : ConnectionsLoaded(list)
  \/ ConnectionsFailed
  \/ \E i \in 1..Len(connections) : InFlight = 0 /\ SelectConnection(i)
  \/ \E i \in 1..Len(folders) : InFlight = 0 /\ handleSelectFolder(i)
  \/ \E j \in 1..Len(files) : SelectFile(j)
  \/ \E request \in BagToSet(inflight), listing \in Listings : ListingResolved(request, listing)
  \/ \E request \in BagToSet(inflight), message \in FetchErrors : ListingFailed(request, message)
  \/ \E bucketName \in ConnectionForms : handleCreateConnection(bucketName)
  \/ \E call \in BagToSet(calls) : ConnectionCreated(call)
  \/ \E call \in BagToSet(calls), refreshed \in RefreshedLists :
       ConnectionsRefreshed(call, refreshed)
  \/ \E call \in BagToSet(calls) : LinkFailed(call)

\* what the backend answers in SpecObject
ObjectListings == {[folders |-> <<Folder_r>>, files |-> <<File_a>>]}

ObjectErrors == {"Failed to fetch"}

\* SpecObject: downloads and deletions interleaved with navigation.  Listing
\* fetches do not overlap here (that is Spec's subject): the user navigates,
\* and a deletion is answered, when no listing is in flight.  The connection
\* is switched when no object call is pending either, and files are picked
\* only while nothing is selected (upload runs are SpecUpload's subject).
ObjectNext ==
  \/ \E list \in ConnectionLists : ConnectionsLoaded(list)
  \/ ConnectionsFailed
  \/ \E i \in 1..Len(connections) :
       InFlight = 0 /\ calls = EmptyBag /\ SelectConnection(i)
  \/ \E i \in 1..Len(folders) : InFlight = 0 /\ handleSelectFolder(i)
  \/ \E k \in 1..Len(breadcrumbs) : InFlight = 0 /\ handleBreadcrumbClick(k)
  \/ \E j \in 1..Len(files) : SelectFile(j)
  \/ InFlight = 0 /\ RefreshClick
  \/ \E request \in BagToSet(inflight), listing \in ObjectListings :
       ListingResolved(request, listing)
  \/ \E request \in BagToSet(inflight), message \in ObjectErrors :
       ListingFailed(request, message)
  \/ \E n \in 1..MaxBatch : ~selectedConnection.some /\ handleFilesSelected(n)
  \/ \E j \in 1..Len(files) : handleDownload(j)
  \/ \E call \in BagToSet(calls) : DownloadGranted(call)
  \/ \E call \in BagToSet(calls), message \in ObjectErrors : DownloadFailed(call, message)
  \/ \E j \in 1..Len(files) : handleDelete(j)
  \/ \E call \in BagToSet(calls) : InFlight = 0 /\ DeleteResolved(call)
  \/ \E call \in BagToSet(calls), message \in ObjectErrors : DeleteFailed(call, message)

\* what the backend answers in SpecUpload
UploadListings == {[folders |-> <<Folder_r>>, files |-> <<File_a>>]}

UploadErrors == {"Failed to fetch"}

\* the backend refuses the upload-url request with a body that carries no
\* detail: authorizedFetch throws parseErrorMessage's fallback
GrantErrors == {"Unexpected error occurred."}

\* SpecUpload interleaves an upload with navigation.  The user navigates when
\* no listing is in flight; overlapping navigation fetches are Spec's subject.
UploadNext ==
  \/ ConnectionsLoaded(<<ConnA, ConnB>>)
  \/ \E i \in 1..Len(connections) : InFlight = 0 /\ SelectConnection(i)
  \/ \E i \in 1..Len(folders) : InFlight = 0 /\ handleSelectFolder(i)
  \/ \E request \in BagToSet(inflight), listing \in UploadListings :
       ListingResolved(request, listing)
  \/ \E request \in BagToSet(inflight), message \in UploadErrors :
       ListingFailed(request, message)
  \/ \E n \in 1..MaxBatch : handleFilesSelected(n)
  \/ GrantResolved
  \/ \E message \in GrantErrors : GrantFailed(message)
  \/ PutSucceeded
  \/ LastPutSucceeded
  \/ PutRefused
  \/ \E message \in UploadErrors : PutRejected(message)

\* SpecTransfer: every request the page sends for objects, an upload run
\* interleaved with downloads, deletions and refreshes, in the root folder of
\* the first connection, each request answered with success or failure.
\* Listing fetches do not overlap here (that is Spec's subject): Refresh is
\* clicked between upload runs and a deletion is answered when no listing is
\* in flight.
TransferNext ==
  \/ ConnectionsLoaded(<<ConnA, ConnB>>)
  \/ InFlight = 0 /\ ~isUploading /\ RefreshClick
  \/ \E request \in BagToSet(inflight), listing \in UploadListings :
       ListingResolved(request, listing)
  \/ \E request \in BagToSet(inflight), message \in UploadErrors :
       ListingFailed(request, message)
  \/ \E j \in 1..Len(files) : handleDelete(j)
  \/ \E call \in BagToSet(calls) : InFlight = 0 /\ DeleteResolved(call)
  \/ \E call \in BagToSet(calls), message \in UploadErrors : DeleteFailed(call, message)
  \/ \E n \in 1..MaxBatch : handleFilesSelected(n)
  \/ GrantResolved
  \/ \E message \in GrantErrors : GrantFailed(message)
  \/ PutSucceeded
  \/ LastPutSucceeded
  \/ PutRefused
  \/ \E message \in UploadErrors : PutRejected(message)
  \/ \E j \in 1..Len(files) : handleDownload(j)
  \/ \E call \in BagToSet(calls) : DownloadGranted(call)
  \/ \E call \in BagToSet(calls), message \in UploadErrors : DownloadFailed(call, message)

\* what the backend answers in SpecPath: a folder prefix of any shape, as it
\* is and under the base prefix of the first connection
PathListings ==
  {[folders |-> <<raw, <<"p", "/">> \o raw>>, files |-> <<>>] : raw \in StringsUpTo(MaxFolderLen)}

\* SpecPath: navigation under the first connection through folder prefixes of
\* every shape, one listing fetch at a time after the first load.
PathNext ==
  \/ ConnectionsLoaded(<<ConnA, ConnB>>)
  \/ \E i \in 1..Len(folders) : InFlight = 0 /\ handleSelectFolder(i)
  \/ \E k \in 1..Len(breadcrumbs) : InFlight = 0 /\ handleBreadcrumbClick(k)
  \/ \E request \in BagToSet(inflight), listing \in PathListings :
       ListingResolved(request, listing)

(***************************************************************************)
(* SpecFn: the projection helpers applied to arguments drawn from bounded  *)
(* sets.  Path segments are what refreshListing can put into folderPath:   *)
(* non-empty and free of "/".                                              *)
(***************************************************************************)
Segments == {<<"a">>, <<"a", "a">>}

RECURSIVE PathsUpTo(_)
PathsUpTo(n) ==
  IF n = 0 THEN {<<>>}
  ELSE LET shorter == PathsUpTo(n - 1)
       IN  shorter \cup {Append(q, g) : q \in {t \in shorter : Len(t) = n - 1}, g \in Segments}

FnInputs ==
  [base : {Undefined} \cup {Some(b) : b \in StringsUpTo(MaxBaseLen)},
   segments : PathsUpTo(MaxSegs),
   raw : StringsUpTo(MaxRawLen)]

FnConnection == [id |-> "F", bucketName |-> "bucket-f", prefix |-> fnIn.base]

FnInit ==
  /\ NavInit
  /\ UploadInit
  /\ workspaceId = "ws"
  /\ projectId = "proj"
  /\ ObjectInit
  /\ fnIn \in FnInputs
  /\ fnOut = NoOutput
  /\ last = [name |-> "mount", target |-> Null]

\* refreshListing up to the call of listStorageObjects
ComposeRequest ==
  /\ fnOut.kind = "none"
  /\ fnOut' = [kind |-> "request",
               request |-> ListingRequest(FnConnection, fnIn.segments, "view")]
  /\ UNCHANGED <<navVars, uploadVars, routeVars, objectVars, fnIn, last>>

\* refreshListing's folderEntries for one backend folder prefix
ProjectFolder ==
  /\ fnOut.kind = "none"
  /\ fnOut' = [kind |-> "folder",
               entry |-> FolderEntryOf(fnIn.raw, ensureTrailingSlash(fnIn.base))]
  /\ UNCHANGED <<navVars, uploadVars, routeVars, objectVars, fnIn, last>>

\* refreshListing's fileEntries for one backend object
ProjectFile ==
  /\ fnOut.kind = "none"
  /\ fnOut' = [kind |-> "file",
               entry |-> FileEntryOf(fnIn.raw, ensureTrailingSlash(fnIn.base), fnIn.segments)]
  /\ UNCHANGED <<navVars, uploadVars, routeVars, objectVars, fnIn, last>>

\* what listStorageObjects answers in SpecFn: the key drawn is listed as a
\* folder prefix and as a file, more than once, and out of order
FnListings ==
  { [folders |-> <<fnIn.raw, Folder_r, fnIn.raw>>,
     files |-> <<File_b, fnIn.raw, File_a, File_b>>],
    [folders |-> <<Folder_r>>, files |-> <<fnIn.raw, fnIn.raw>>] }

\* refreshListing's try branch for a whole answer
ProjectListing(listing) ==
  /\ fnOut.kind = "none"
  /\ fnOut' = [kind |-> "listing",
               listing |-> listing,
               view |-> ListingSuccess(ListingRequest(FnConnection, fnIn.segments, "view"),
                                       listing)]
  /\ UNCHANGED <<navVars, uploadVars, routeVars, objectVars, fnIn, last>>

FnNext ==
  \/ ComposeRequest
  \/ ProjectFolder
  \/ ProjectFile
  \/ \E listing \in FnListings : ProjectListing(listing)

Next == NavNext

Spec == Init /\ [][Next]_vars

SpecUpload == Init /\ [][UploadNext]_vars

SpecFn == FnInit /\ [][FnNext]_vars

SpecObject == Init /\ [][ObjectNext]_vars

SpecTransfer == Init /\ [][TransferNext]_vars

SpecConnect == Init /\ [][ConnectNext]_vars

SpecPath == Init /\ [][PathNext]_vars

(***************************************************************************)
(* What the specification says the helpers compute, written from its text  *)
(* and not from the code.                                                  *)
(***************************************************************************)
NonSlash(s) == {k \in 1..Len(s) : s[k] # "/"}

Least(S) == CHOOSE k \in S : \A m \in S : k <= m

Greatest(S) == CHOOSE k \in S : \A m \in S : m <= k

\* s without its leading and trailing "/"
Trimmed(s) == IF NonSlash(s) = {} THEN <<>> ELSE SubSeq(s, Least(NonSlash(s)), Greatest(NonSlash(s)))

\* s without its trailing "/"
WithoutTrailingSlash(s) == IF NonSlash(s) = {} THEN <<>> ELSE SubSeq(s, 1, Greatest(NonSlash(s)))

\* s with p removed from its front, s itself when p is not at its front
RemovedFromFront(s, p) == IF StartsWith(s, p) THEN SubSeq(s, Len(p) + 1, Len(s)) ELSE s

\* the non-empty "/"-separated parts of s, scanning left to right
RECURSIVE PartsFrom(_, _)
PartsFrom(s, part) ==
  IF s = <<>> THEN (IF part = <<>> THEN <<>> ELSE <<part>>)
  ELSE IF Head(s) = "/"
       THEN (IF part = <<>> THEN <<>> ELSE <<part>>) \o PartsFrom(Tail(s), <<>>)
       ELSE PartsFrom(Tail(s), Append(part, Head(s)))

Parts(s) == PartsFrom(s, <<>>)

\* base prefix and segments, each trimmed, joined by single "/", with a
\* trailing "/" when non-empty
EffectivePrefix(base, segments) ==
  LET b == IF base.some THEN Trimmed(base.val) ELSE <<>>
      parts == (IF b = <<>> THEN <<>> ELSE <<b>>)
                 \o [i \in 1..Len(segments) |-> Trimmed(segments[i])]
  IN  IF parts = <<>> THEN <<>> ELSE JoinSlash(parts) \o <<"/">>

FnPrefix == EffectivePrefix(fnIn.base, fnIn.segments)

(***************************************************************************)
(* C1.  A resolved listing fetch is applied only if it is still the most   *)
(* recently issued one: when T1 then T2 are issued and T1's fetch resolves *)
(* after T2's, the listing held once nothing is in flight is the one       *)
(* fetched for the current root and path.  The code applies every answer.  *)
(***************************************************************************)
C1_StaleResultDiscarded ==
  (shown.some /\ InFlight = 0)
    => (shown.conn = selectedConnectionId /\ shown.segs = folderPath)

(***************************************************************************)
(* C2.  In every reachable state selectedFileKey is null or the key of a   *)
(* FileEntry of the files list currently held.                             *)
(***************************************************************************)
C2_SelectionInFiles ==
  selectedFileKey.some => \E j \in 1..Len(files) : files[j].key = selectedFileKey.val

\* a refresh has just kept a selection, because the new listing has the key
C2_Witness ==
  /\ last.name = "ListingResolved"
  /\ selectedFileKey.some
  /\ Len(files) = 1

(***************************************************************************)
(* C3.  As claimed: for every FolderEntry and FileEntry whose full key     *)
(* starts with the effective prefix, effectivePrefix + displayName equals  *)
(* the full key.                                                           *)
(***************************************************************************)
C3_PrefixPlusNameIsKey_Original ==
  (fnOut.kind \in {"folder", "file"} /\ StartsWith(fnOut.entry.key, FnPrefix))
    => FnPrefix \o fnOut.entry.name = fnOut.entry.key

(***************************************************************************)
(* C3, amended.  For every FileEntry whose key starts with the effective   *)
(* prefix and is longer than it, effectivePrefix + displayName equals the  *)
(* key; for every FolderEntry whose key is the effective prefix followed   *)
(* by one more segment, effectivePrefix + displayName equals the key       *)
(* without its trailing "/".                                               *)
(***************************************************************************)
ImmediateChild(key, prefix) ==
  /\ StartsWith(key, prefix)
  /\ LET rest == WithoutTrailingSlash(SubSeq(key, Len(prefix) + 1, Len(key)))
     IN  rest # <<>> /\ \A k \in 1..Len(rest) : rest[k] # "/"

C3_PrefixPlusNameIsKey ==
  /\ (fnOut.kind = "file" /\ StartsWith(fnOut.entry.key, FnPrefix)
        /\ fnOut.entry.key # FnPrefix)
       => FnPrefix \o fnOut.entry.name = fnOut.entry.key
  /\ (fnOut.kind = "folder" /\ ImmediateChild(fnOut.entry.key, FnPrefix))
       => FnPrefix \o fnOut.entry.name = WithoutTrailingSlash(fnOut.entry.key)

\* a folder directly under a two-level effective prefix has been projected
C3_Witness ==
  /\ fnOut.kind = "folder"
  /\ fnIn.base.some
  /\ Len(fnIn.segments) = 1
  /\ Len(FnPrefix) >= 4
  /\ ImmediateChild(fnOut.entry.key, FnPrefix)

(***************************************************************************)
(* C4.  The prefix sent to the listing call is the normalized base prefix  *)
(* followed by the trimmed segments, joined by single "/", with a trailing *)
(* "/" when non-empty; an empty effective prefix is sent as no prefix.     *)
(***************************************************************************)
C4_EffectivePrefixSent ==
  fnOut.kind = "request"
    => fnOut.request.prefix = (IF FnPrefix = <<>> THEN Undefined ELSE Some(FnPrefix))

\* a request composed from a base prefix with a leading "/" and two segments
C4_Witness ==
  /\ fnOut.kind = "request"
  /\ fnIn.base.some
  /\ Len(fnIn.base.val) = 2
  /\ fnIn.base.val[1] = "/"
  /\ fnIn.base.val[2] # "/"
  /\ Len(fnIn.segments) = 2
  /\ fnOut.request.prefix.some

(***************************************************************************)
(* C5.  Batch upload: the grant request and the PUT of file i+1 start only *)
(* after the PUT of file i completed; the first failure ends the run with  *)
(* no further request; and the outcome tells which file failed, hence      *)
(* which files succeeded and which were not attempted.  The code reports   *)
(* a rejected grant or PUT by the bare message of the error.               *)
(***************************************************************************)
StartsAfterPrevious(log) ==
  \A k \in 1..Len(log) :
    (log[k].op \in {"grant", "put"} /\ log[k].index > 1)
      => \E m \in 1..(k - 1) : log[m].op = "put-ok" /\ log[m].index = log[k].index - 1

FailureEndsRun(log) ==
  \A k \in 1..Len(log) : log[k].op \in {"grant-failed", "put-failed"} => k = Len(log)

OutcomeNamesFailedFile ==
  (upload.phase = "failed" /\ Len(upload.batch) > 1)
    => /\ uploadError.text # Null
       /\ uploadError.name = upload.batch[upload.index].name

C5_BatchUploadPolicy ==
  /\ StartsAfterPrevious(transfers)
  /\ FailureEndsRun(transfers)
  /\ OutcomeNamesFailedFile

(***************************************************************************)
(* C6.  currentPath never contains a ".." segment and the effective prefix *)
(* derived from it starts with the active root's base prefix.  The code    *)
(* takes the segments of a folder prefix from the backend as they come.    *)
(***************************************************************************)
DotDot == <<".", ".">>

C6_NoPathEscape ==
  /\ \A k \in 1..Len(folderPath) : folderPath[k] # DotDot
  /\ selectedConnection.some
       => StartsWith(composePrefix(ensureTrailingSlash(selectedConnection.val.prefix), folderPath),
                     EffectivePrefix(selectedConnection.val.prefix, <<>>))

(***************************************************************************)
(* C7.  A FolderEntry's segments are the non-empty "/"-separated parts of  *)
(* the folder prefix after removing the root's base prefix from its front  *)
(* (unchanged if absent) and stripping trailing "/"; its name is the last  *)
(* segment, or the whole stripped string when there are no segments.       *)
(***************************************************************************)
C7_FolderProjection ==
  fnOut.kind = "folder"
    => LET base == EffectivePrefix(fnIn.base, <<>>)
           stripped == WithoutTrailingSlash(RemovedFromFront(fnIn.raw, base))
           parts == Parts(stripped)
       IN  /\ fnOut.entry.segments = parts
           /\ fnOut.entry.name = (IF parts = <<>> THEN stripped ELSE parts[Len(parts)])

\* a folder two levels below a non-empty base prefix has been projected
C7_Witness ==
  /\ fnOut.kind = "folder"
  /\ EffectivePrefix(fnIn.base, <<>>) # <<>>
  /\ StartsWith(fnIn.raw, EffectivePrefix(fnIn.base, <<>>))
  /\ Len(fnOut.entry.segments) = 2
  /\ fnOut.entry.name = fnOut.entry.segments[2]

(***************************************************************************)
(* C8.  A FileEntry's display name is its key with the effective prefix    *)
(* removed from the front, or the full key if that leaves nothing; it is   *)
(* never empty for a non-empty key; key and objectPath are the raw key.    *)
(***************************************************************************)
C8_FileDisplayName ==
  fnOut.kind = "file"
    => LET removed == RemovedFromFront(fnIn.raw, FnPrefix)
       IN  /\ fnOut.entry.name = (IF removed = <<>> THEN fnIn.raw ELSE removed)
           /\ fnIn.raw # <<>> => fnOut.entry.name # <<>>
           /\ fnOut.entry.key = fnIn.raw
           /\ fnOut.entry.objectPath = fnIn.raw

\* a file whose key is the effective prefix itself: the fallback applies
C8_Witness ==
  /\ fnOut.kind = "file"
  /\ fnIn.raw # <<>>
  /\ fnIn.raw = FnPrefix
  /\ fnOut.entry.name = fnIn.raw

(***************************************************************************)
(* C9.  A failed listing fetch empties folders and files, clears           *)
(* selectedFileKey, stores the failure message in listingError and leaves  *)
(* currentPath and the active root unchanged.                              *)
(***************************************************************************)
C9_ListingFailure ==
  [][last'.name = "ListingFailed"
       => /\ folders' = <<>>
          /\ files' = <<>>
          /\ selectedFileKey' = NullKey
          /\ listingError' = shown'.failure
          /\ listingError' \in FetchErrors
          /\ folderPath' = folderPath
          /\ selectedConnectionId' = selectedConnectionId]_vars

\* a fetch has just failed inside a folder, with a listing and a selection gone
C9_Witness ==
  /\ last.name = "ListingFailed"
  /\ folderPath # <<>>
  /\ selectedConnectionId # Null
  /\ listingError \in FetchErrors
  /\ files = <<>>

(***************************************************************************)
(* C10.  Selecting a different storage root makes it the active root,      *)
(* resets currentPath to the empty sequence, clears selectedFileKey,       *)
(* folders, files and listingError, and issues a listing fetch for the new *)
(* root at the empty path.                                                 *)
(***************************************************************************)
C10_SwitchRoot ==
  [][last'.name = "SelectConnection"
       => /\ selectedConnectionId' = last'.target
          /\ selectedConnectionId' # selectedConnectionId
          /\ folderPath' = <<>>
          /\ selectedFileKey' = NullKey
          /\ folders' = <<>>
          /\ files' = <<>>
          /\ listingError' = Null
          /\ \E request \in BagToSet(inflight') :
               /\ request.latest
               /\ request.connection.id = last'.target
               /\ request.segments = <<>>
               /\ request.prefix = PrefixParameter(PrefixArgument(
                                     EffectivePrefix(request.connection.prefix, <<>>)))]_vars

\* the root has just been switched away from a folder
C10_Witness ==
  /\ last.name = "SelectConnection"
  /\ selectedConnectionId = last.target
  /\ \E request \in BagToSet(inflight) : request.segments # <<>>

(***************************************************************************)
(* C11.  As claimed: clicking a FolderEntry sets currentPath to that       *)
(* entry's segments from the root, clears selectedFileKey, leaves the      *)
(* active root unchanged and triggers exactly one listing fetch whose      *)
(* prefix is the effective prefix of the new path.                         *)
(***************************************************************************)
EntersFolder ==
  /\ \E i \in 1..Len(folders) : folderPath' = folders[i].segments
  /\ selectedFileKey' = NullKey
  /\ selectedConnectionId' = selectedConnectionId

\* the bag of fetches in flight has grown by one: the newest one, for the
\* active root and the effective prefix of the new path
OneFetchForNewPath ==
  /\ BagCardinality(inflight') = BagCardinality(inflight) + 1
  /\ \E request \in BagToSet(inflight') :
       /\ request.latest
       /\ CopiesIn(request, inflight') = 1
       /\ request.connection.id = selectedConnectionId'
       /\ request.segments = folderPath'
       /\ request.prefix = PrefixParameter(PrefixArgument(
                             EffectivePrefix(request.connection.prefix, folderPath')))

C11_EnterFolder_Original ==
  [][last'.name = "handleSelectFolder" => (EntersFolder /\ OneFetchForNewPath)]_vars

(***************************************************************************)
(* C11, amended.  Clicking a FolderEntry sets currentPath to that entry's  *)
(* segments, clears selectedFileKey and leaves the active root unchanged.  *)
(* It triggers exactly one listing fetch for the effective prefix of the   *)
(* new path, except when the entry clicked is the one whose click set the  *)
(* current path and no listing has been applied since: then the path cell  *)
(* already holds that very array, no fetch is issued, and the fetch of the *)
(* first click is still in flight.                                         *)
(***************************************************************************)
SameEntryAgain == pathRef # 0 /\ pathRef' = pathRef

C11_EnterFolder ==
  [][last'.name = "handleSelectFolder"
       => /\ EntersFolder
          /\ IF SameEntryAgain
             THEN /\ inflight' = inflight
                  /\ folderPath' = folderPath
                  /\ \E request \in BagToSet(inflight) :
                       /\ request.connection.id = selectedConnectionId
                       /\ request.segments = folderPath
             ELSE OneFetchForNewPath]_vars

\* a folder has just been entered from the root listing of a connection
\* with a base prefix, and its fetch is in flight
C11_Witness ==
  /\ last.name = "handleSelectFolder"
  /\ pathRef # 0
  /\ folderPath = folders[pathRef].segments
  /\ folderPath # <<>>
  /\ selectedFileKey = NullKey
  /\ \E request \in BagToSet(inflight) :
       /\ request.latest
       /\ request.segments = folderPath
       /\ request.prefix.some
       /\ Len(request.prefix.val) > Len(folderPath[1]) + 1

(***************************************************************************)
(* C12.  The breadcrumbs offered are exactly the prefixes of currentPath,  *)
(* one of each length 0..n in that order, the empty one labelled Root; so  *)
(* every breadcrumb jump sets currentPath to a prefix of (or equal to) the *)
(* path it had before, never lengthens it, and clears selectedFileKey.     *)
(***************************************************************************)
IsPrefixOf(p, q) ==
  /\ Len(p) <= Len(q)
  /\ \A i \in 1..Len(p) : p[i] = q[i]

BreadcrumbsArePrefixes ==
  /\ Len(breadcrumbs) = Len(folderPath) + 1
  /\ \A k \in 1..Len(breadcrumbs) :
       /\ Len(breadcrumbs[k].segments) = k - 1
       /\ IsPrefixOf(breadcrumbs[k].segments, folderPath)
  /\ breadcrumbs[1].label = <<"R", "o", "o", "t">>

JumpShortens ==
  /\ \E k \in 1..Len(breadcrumbs) : folderPath' = breadcrumbs[k].segments
  /\ IsPrefixOf(folderPath', folderPath)
  /\ Len(folderPath') <= Len(folderPath)
  /\ selectedFileKey' = NullKey

C12_BreadcrumbJump ==
  /\ []BreadcrumbsArePrefixes
  /\ [][last'.name = "handleBreadcrumbClick" => JumpShortens]_vars

\* the Root crumb has just been clicked while a folder's listing was shown
C12_Witness ==
  /\ last.name = "handleBreadcrumbClick"
  /\ folderPath = <<>>
  /\ shown.some
  /\ shown.segs # <<>>
  /\ selectedFileKey = NullKey

(***************************************************************************)
(* C13.  For every file of an upload run, the object key of its grant      *)
(* request is the effective prefix (base prefix and the path that was      *)
(* current when the files were picked) followed by the file name, with no  *)
(* "//" in it, and the Content-Type of its PUT is the content type its     *)
(* grant request declared: the file's type, or application/octet-stream    *)
(* when the file has none.                                                 *)
(***************************************************************************)
NoDoubleSlash(s) == \A k \in 1..(Len(s) - 1) : ~(s[k] = "/" /\ s[k + 1] = "/")

GrantOf(log, k) ==
  log[CHOOSE m \in 1..(k - 1) :
        /\ log[m].op = "grant"
        /\ log[m].index = log[k].index
        /\ \A n \in (m + 1)..(k - 1) : log[n].op # "grant"]

C14_FailureNamesFile ==
  \A k \in 1..Len(transfers) :
    (transfers[k].op \in {"grant-failed", "put-failed"} /\ upload.phase = "failed")
      => /\ uploadError # NoError
         /\ uploadError.name = upload.batch[transfers[k].index].name

(***************************************************************************)
(* C15.  A successful deleteStorageObject is followed by a listing refresh *)
(* for the current path of the active root; a failed deletion sets an      *)
(* error message, leaves folders, files, selectedFileKey and currentPath   *)
(* as they were, and issues no refresh.  The code refreshes the connection *)
(* and path of the render in which Delete was clicked.                     *)
(***************************************************************************)
RefreshForCurrentPath ==
  /\ BagCardinality(inflight') = BagCardinality(inflight) + 1
  /\ \E request \in BagToSet(inflight') :
       /\ request.latest
       /\ request.connection.id = selectedConnectionId'
       /\ request.segments = folderPath'

FailedDeletionKeepsView ==
  /\ listingError' \in ObjectErrors
  /\ inflight' = inflight
  /\ UNCHANGED <<folders, files, selectedFileKey, folderPath>>

C15_Deletion ==
  [][/\ last'.name = "DeleteResolved" => RefreshForCurrentPath
     /\ last'.name = "DeleteFailed" => FailedDeletionKeepsView]_vars

(***************************************************************************)
(* C16.  One grant per object per direction.  Each file of an upload batch *)
(* gets its own upload-url request and its PUT goes to the URL that very   *)
(* request returned; each Download click issues a fresh download-url       *)
(* request, and a URL is opened only as the answer to one such request; no *)
(* URL is kept for a second object or transfer.                            *)
(***************************************************************************)
\* every PUT directly follows the answer to the grant request of its own
\* file and addresses what that request asked for; no file of the run has two
OwnGrantPerUpload(log) ==
  /\ \A k \in 1..Len(log) :
       log[k].op = "put"
         => /\ k >= 3
            /\ log[k - 1].op = "granted" /\ log[k - 1].index = log[k].index
            /\ log[k - 2].op = "grant" /\ log[k - 2].index = log[k].index
            /\ log[k].bucketName = log[k - 2].bucketName
            /\ log[k].objectPath = log[k - 2].objectPath
  /\ \A k, m \in 1..Len(log) :
       (log[k].op = log[m].op /\ log[k].op \in {"grant", "put"}
          /\ log[k].index = log[m].index) => k = m

FreshGrantPerDownload ==
  /\ (last'.name = "handleDownload" /\ selectedConnection.some /\ Configured)
       => /\ BagCardinality(calls') = BagCardinality(calls) + 1
          /\ \E j \in 1..Len(files) :
               \E call \in BagToSet(calls') :
                 /\ call.op = "download"
                 /\ call.objectPath = files[j].objectPath
                 /\ call.bucketName = selectedConnection.val.bucketName
                 /\ CopiesIn(call, calls') = CopiesIn(call, calls) + 1
          /\ opened' = opened
  /\ last'.name = "DownloadGranted"
       => \E call \in BagToSet(calls) :
            /\ call.op = "download"
            /\ CopiesIn(call, calls') = CopiesIn(call, calls) - 1
            /\ BagCardinality(calls') = BagCardinality(calls) - 1
            /\ opened' = Some([method |-> "GET", bucketName |-> call.bucketName,
                               objectPath |-> call.objectPath])
  /\ last'.name # "DownloadGranted" => opened' = opened

C16_OneGrantPerTransfer ==
  /\ []OwnGrantPerUpload(transfers)
  /\ [][FreshGrantPerDownload]_vars

\* a second Download click on a file whose URL was opened before has its own
\* request pending, while the second file of an upload batch is being PUT
C16_Witness ==
  /\ last.name = "handleDownload"
  /\ opened.some
  /\ \E call \in BagToSet(calls) : call.op = "download" /\ call.objectPath = opened.val.objectPath
  /\ upload.phase = "put"
  /\ upload.index = 2

(***************************************************************************)
(* C17.  The folders and files produced from a listing have the length and *)
(* the order of the backend's folders and files arrays: entry i is made    *)
(* from element i.  Nothing is sorted, merged or de-duplicated, also when  *)
(* the same key is listed both as a file and as a folder prefix.           *)
(***************************************************************************)
C17_OrderAndMultiplicity ==
  fnOut.kind = "listing"
    => /\ Len(fnOut.view.folders) = Len(fnOut.listing.folders)
       /\ \A i \in 1..Len(fnOut.listing.folders) :
            /\ fnOut.view.folders[i].key = fnOut.listing.folders[i]
            /\ fnOut.view.folders[i].fullPrefix = fnOut.listing.folders[i]
       /\ Len(fnOut.view.files) = Len(fnOut.listing.files)
       /\ \A j \in 1..Len(fnOut.listing.files) :
            /\ fnOut.view.files[j].key = fnOut.listing.files[j]
            /\ fnOut.view.files[j].objectPath = fnOut.listing.files[j]

\* an answer in which one key is a folder prefix twice and a file as well,
\* listed after a key that sorts behind it
C17_Witness ==
  /\ fnOut.kind = "listing"
  /\ fnIn.raw = <<"a", "/">>
  /\ Len(fnOut.view.folders) = 3
  /\ fnOut.view.folders[1].key = fnOut.view.folders[3].key
  /\ fnOut.view.files[1].key = File_b
  /\ fnOut.view.files[2].key = fnOut.view.folders[1].key

(***************************************************************************)
(* C18.  Applying the answer for a (root, path) a second time, with the    *)
(* same backend data as the answer applied before it, leaves folders and   *)
(* files as they are; every answer replaces the view, which holds as many  *)
(* entries as the answer has elements and never accumulates.               *)
(***************************************************************************)
C18_RelistingIdempotent ==
  [][last'.name = "ListingResolved"
       => /\ shown'.listing.some
          /\ Len(folders') = Len(shown'.listing.val.folders)
          /\ Len(files') = Len(shown'.listing.val.files)
          /\ (/\ shown.listing = shown'.listing
              /\ shown.conn = shown'.conn
              /\ shown.segs = shown'.segs)
               => (folders' = folders /\ files' = files)]_vars

\* the same non-empty answer has just been applied twice in a row for one
\* folder of a connection
C18_Witness ==
  /\ last.name = "ListingResolved"
  /\ shown.again
  /\ shown.segs # <<>>
  /\ Len(files) = 2
  /\ Len(folders) = 1

(***************************************************************************)
(* C19.  While there is no active storage root, or a route identifier is   *)
(* missing, upload, download, delete and manual refresh change nothing and *)
(* send nothing, and no listing is fetched: no listing fetch, object call  *)
(* or upload run is pending in such a state.                               *)
(***************************************************************************)
NoActiveRoot == ~selectedConnection.some \/ ~Configured

NothingPending ==
  /\ inflight = EmptyBag
  /\ calls = EmptyBag
  /\ ~isUploading
  /\ upload.phase \notin {"grant", "put", "refresh"}

BlockedLocally ==
  (NoActiveRoot /\ last'.name \in {"handleFilesSelected", "handleDownload",
                                   "handleDelete", "RefreshClick"})
    => UNCHANGED <<navVars, uploadVars, objectVars>>

C20_GrantBeforeBytes ==
  \A k \in 1..Len(transfers) :
    /\ transfers[k].op = "put"
         => \E m \in 1..(k - 1) :
              /\ transfers[m].op = "granted"
              /\ transfers[m].index = transfers[k].index
    /\ transfers[k].op = "grant-failed"
         => /\ \A m \in 1..Len(transfers) :
                 transfers[m].op = "put" => transfers[m].index < transfers[k].index
            /\ \A m \in (k + 1)..Len(transfers) : transfers[m].op \notin {"grant", "put"}

\* the grant request of the second file of three was rejected after the
\* first file had been transferred
C20_Witness ==
  /\ upload.phase = "failed"
  /\ Len(upload.batch) = 3
  /\ upload.index = 2
  /\ transfers[Len(transfers)].op = "grant-failed"
  /\ \E m \in 1..Len(transfers) : transfers[m].op = "put-ok" /\ transfers[m].index = 1
  /\ ~isUploading

(***************************************************************************)
(* C21.  Refresh after transfer: an upload run that ends having            *)
(* transferred at least one file, a run aborted by a later file's failure  *)
(* included, has a listing refresh issued for it.  The handler issues its  *)
(* refresh after the last file only, and awaits it before it ends; the     *)
(* catch of an aborted run issues none.                                    *)
(***************************************************************************)
TransferredSome(log) == \E k \in 1..Len(log) : log[k].op = "put-ok"

RunEnds == isUploading /\ ~isUploading'

RefreshIssuedForRun == upload.phase = "refresh"

C21_RefreshAfterTransfer ==
  [][(RunEnds /\ TransferredSome(transfers')) => RefreshIssuedForRun]_vars

(***************************************************************************)
(* C22.  No automatic retry.  The step that handles a failed listing       *)
(* fetch, upload-url request, PUT or delete call takes the failed request  *)
(* out of what is pending and sends nothing; every step that sends a       *)
(* request is a user event (navigation, Refresh, file pick, Download,      *)
(* Delete), the mount's connection load, or the continuation of a request  *)
(* that succeeded.                                                         *)
(***************************************************************************)
FailureSteps == {"ListingFailed", "GrantFailed", "PutRefused", "PutRejected", "DeleteFailed",
                 "DownloadFailed"}

UserEvents == {"SelectConnection", "handleSelectFolder", "handleBreadcrumbClick",
               "RefreshClick", "handleFilesSelected", "handleDownload", "handleDelete"}

SuccessSteps == {"ConnectionsLoaded", "GrantResolved", "PutSucceeded", "LastPutSucceeded",
                 "DeleteResolved"}

RequestsIn(log) == Cardinality({k \in 1..Len(log) : log[k].op \in {"grant", "put"}})

\* the step sends a listing fetch, an object call, an upload-url request or a PUT
SendsRequest ==
  \/ ~(inflight' \sqsubseteq inflight)
  \/ ~(calls' \sqsubseteq calls)
  \/ RequestsIn(transfers') > RequestsIn(transfers)
  \/ (transfers' # transfers /\ RequestsIn(transfers') > 0 /\ Len(transfers') <= Len(transfers))

\* the failed request is no longer pending
FailedRequestDropped ==
  /\ last'.name = "ListingFailed" => BagCardinality(inflight') = BagCardinality(inflight) - 1
  /\ last'.name \in {"DeleteFailed", "DownloadFailed"}
       => BagCardinality(calls') = BagCardinality(calls) - 1
  /\ last'.name \in {"GrantFailed", "PutRefused", "PutRejected"}
       => upload'.phase = "failed" /\ ~isUploading'

C22_NoAutomaticRetry ==
  [][/\ last'.name \in FailureSteps => (~SendsRequest /\ FailedRequestDropped)
     /\ SendsRequest => last'.name \in UserEvents \cup SuccessSteps]_vars

C22_Witness ==
  /\ last.name = "ListingFailed"
  /\ InFlight = 0
  /\ calls = EmptyBag
  /\ upload.phase = "failed"
  /\ listingError \in UploadErrors

(***************************************************************************)
(* C23.  Initial state and active root.  The browser starts with an empty  *)
(* path, no selected file and no active root; when the roots list loads,   *)
(* the active root becomes the first root if none was set, and null if the *)
(* list is empty or the load failed; in every reachable state the active   *)
(* root id is null or the id of a root in the list held.  The mount's load *)
(* keeps an id set by a link made meanwhile without looking it up in the   *)
(* list it stores.                                                         *)
(***************************************************************************)
StartsEmpty ==
  last.name = "mount" =>
    /\ folderPath = <<>>
    /\ selectedFileKey = NullKey
    /\ selectedConnectionId = Null
    /\ ~selectedConnection.some

ActiveRootAfterLoad ==
  /\ last'.name = "ConnectionsLoaded" =>
       selectedConnectionId' =
         IF Len(connections') = 0 THEN Null
         ELSE IF selectedConnectionId = Null THEN connections'[1].id
         ELSE selectedConnectionId
  /\ last'.name = "ConnectionsFailed" => selectedConnectionId' = Null

ActiveRootInList ==
  \/ selectedConnectionId = Null
  \/ \E i \in 1..Len(connections) : connections[i].id = selectedConnectionId

C23_ActiveRoot ==
  /\ [](StartsEmpty /\ ActiveRootInList)
  /\ [][ActiveRootAfterLoad]_vars

(***************************************************************************)
(* C24.  On a root switch made while currentPath is non-empty, the only    *)
(* listing request caused by the switch is for the new root at the empty   *)
(* path: none is issued that pairs the new root with the previous root's   *)
(* path segments.  The listing effect runs in the commit of the switch,    *)
(* before the reset of the path is rendered, and again after it.           *)
(***************************************************************************)
PendingFor(bag, id, segments) ==
  LET matching == {request \in BagToSet(bag) :
                     request.connection.id = id /\ request.segments = segments}
  IN  BagCardinality([request \in matching |-> bag[request]])

C24_SwitchListsEmptyPathOnly ==
  [][(last'.name = "SelectConnection" /\ folderPath # <<>>) =>
       /\ BagCardinality(inflight') = BagCardinality(inflight) + 1
       /\ PendingFor(inflight', selectedConnectionId', folderPath)
            = PendingFor(inflight, selectedConnectionId', folderPath)
       /\ PendingFor(inflight', selectedConnectionId', <<>>)
            = PendingFor(inflight, selectedConnectionId', <<>>) + 1]_vars

(***************************************************************************)
(* C25.  The listing refresh that follows an upload or a deletion never    *)
(* replaces the displayed folders and files with the contents of a root or *)
(* path other than the current one, also when the user navigated or        *)
(* switched root meanwhile; once nothing is pending, the listing displayed *)
(* is that of the active root and currentPath.  The handlers refresh the   *)
(* connection and path of the render in which they were started.           *)
(***************************************************************************)
\* the step applies the answer of a refresh issued by an upload or a deletion
AppliesRefreshOf(request) ==
  /\ request.origin \in {"upload", "delete"}
  /\ BagIn(request, inflight)
  /\ inflight' = Answered(inflight, request)
  /\ last'.name = "ListingResolved"

\* what the step displays is the listing of the active root and currentPath
DisplaysCurrentFolder ==
  /\ shown'.some
  /\ shown'.conn = selectedConnectionId'
  /\ shown'.segs = folderPath'

C25_RefreshShowsCurrentFolder ==
  [][\A request \in BagToSet(inflight) :
       AppliesRefreshOf(request) => DisplaysCurrentFolder]_vars

(***************************************************************************)
(* C26.  Busy flags track the work in flight: isListing is true in every   *)
(* state where a listing fetch is in flight and false where none is, also  *)
(* when fetches overlap; isUploading is true from the start of an upload   *)
(* run to its end and false again once the run has ended, whether it       *)
(* succeeded or failed.  The finally of every refreshListing call clears   *)
(* isListing, whatever else is in flight.                                  *)
(***************************************************************************)
RunInProgress == upload.phase \in {"grant", "put", "refresh"}

C26_BusyFlags ==
  /\ isListing <=> (InFlight > 0)
  /\ isUploading <=> RunInProgress

(***************************************************************************)
(* C27.  All files of one upload batch are written under the bucket and    *)
(* the effective prefix that were current when the batch started:          *)
(* navigating or switching root while the batch runs changes neither the   *)
(* bucket nor the key prefix of the grant requests that remain.            *)
(***************************************************************************)
\* the object path of the k-th entry of the log without its file name
KeyPrefixOf(log, k, batch) ==
  SubSeq(log[k].objectPath, 1, Len(log[k].objectPath) - Len(batch[log[k].index].name))

RunStarts == ~isUploading /\ isUploading'

FirstGrantUnderCurrentFolder ==
  /\ transfers'[1].op = "grant"
  /\ transfers'[1].bucketName = selectedConnection.val.bucketName
  /\ KeyPrefixOf(transfers', 1, upload'.batch)
       = EffectivePrefix(selectedConnection.val.prefix, folderPath)

GrantsUnderFirstGrant ==
  \A k \in 1..Len(transfers) :
    transfers[k].op = "grant" =>
      /\ transfers[k].bucketName = transfers[1].bucketName
      /\ KeyPrefixOf(transfers, k, upload.batch) = KeyPrefixOf(transfers, 1, upload.batch)

C27_BatchKeepsTarget ==
  /\ []GrantsUnderFirstGrant
  /\ [][RunStarts => FirstGrantUnderCurrentFolder]_vars

C27_Witness ==
  /\ last.name = "PutSucceeded"
  /\ upload.connection.val.id = "A"
  /\ upload.segments # <<>>
  /\ selectedConnectionId = "B"
  /\ folderPath = <<>>
  /\ transfers[Len(transfers)].op = "grant"
  /\ transfers[Len(transfers)].bucketName = "bucket-a"

(***************************************************************************)
(* C28.  Enter-folder round trip: for every raw folder prefix F the        *)
(* backend returns (a prefix closed by the delimiter "/") that starts with *)
(* the root's normalized base prefix B, entering its FolderEntry issues a  *)
(* listing whose effective prefix is F: composePrefix(B, segments(F)) = F. *)
(* Empty segments of F are dropped by the projection and do not come back. *)
(***************************************************************************)
NormalizedBase == EffectivePrefix(fnIn.base, <<>>)

\* the prefix parameter of the listing that entering the projected entry issues
PrefixOnEntering ==
  LET sent == ListingRequest(FnConnection, fnOut.entry.segments, "view").prefix
  IN  IF sent.some THEN sent.val ELSE <<>>

ReturnedUnderBase ==
  /\ fnIn.raw # <<>>
  /\ fnIn.raw[Len(fnIn.raw)] = "/"
  /\ StartsWith(fnIn.raw, NormalizedBase)

C28_EnterFolderRoundTrip ==
  (fnOut.kind = "folder" /\ ReturnedUnderBase) => PrefixOnEntering = fnIn.raw

(***************************************************************************)
(* C29.  A download never changes browsing state: from the click to the    *)
(* answer of the download-url request, currentPath, the active root,       *)
(* folders, files and selectedFileKey stay as they are; on success the URL *)
(* returned for the object is opened, on failure the error message is set  *)
(* and nothing else.                                                       *)
(***************************************************************************)
BrowsingState == <<folderPath, selectedConnectionId, connections, folders, files, selectedFileKey>>

\* the download call the step answers
AnsweredDownload(call) ==
  /\ call.op = "download"
  /\ BagIn(call, calls)
  /\ calls' = calls (-) SetToBag({call})

OpensReturnedUrl ==
  /\ \E call \in BagToSet(calls) :
       /\ AnsweredDownload(call)
       /\ opened' = Some([method |-> "GET", bucketName |-> call.bucketName,
                          objectPath |-> call.objectPath])
  /\ UNCHANGED <<listingError, isListing, inflight, uploadVars>>

SetsErrorOnly ==
  /\ \E call \in BagToSet(calls) : AnsweredDownload(call)
  /\ listingError' \in ObjectErrors
  /\ UNCHANGED <<opened, isListing, inflight, uploadVars>>

C29_DownloadKeepsBrowsingState ==
  [][/\ last'.name \in {"handleDownload", "DownloadGranted", "DownloadFailed"}
          => UNCHANGED BrowsingState
     /\ last'.name = "DownloadGranted" => OpensReturnedUrl
     /\ last'.name = "DownloadFailed" => SetsErrorOnly]_vars

C29_Witness ==
  /\ last.name = "DownloadFailed"
  /\ opened.some
  /\ folderPath # <<>>
  /\ files # <<>>
  /\ selectedFileKey.some
  /\ listingError \in ObjectErrors

(***************************************************************************)
(* C30.  Path segment well-formedness: in every reachable state each       *)
(* element of currentPath is a non-empty string without "/", so the        *)
(* effective prefix built from it has no "//" after the base prefix and,   *)
(* when the path is non-empty, ends in exactly one "/".                    *)
(***************************************************************************)
WellFormedSegment(segment) ==
  /\ segment # <<>>
  /\ \A k \in 1..Len(segment) : segment[k] # "/"

\* the effective prefix of the listing for the current path, and the base
\* prefix it starts with
CurrentPrefix == composePrefix(ensureTrailingSlash(selectedConnection.val.prefix), folderPath)

CurrentBase == ensureTrailingSlash(selectedConnection.val.prefix)

EndsInOneSlash(s) ==
  /\ Len(s) >= 2
  /\ s[Len(s)] = "/"
  /\ s[Len(s) - 1] # "/"

C30_WellFormedPath ==
  /\ \A i \in 1..Len(folderPath) : WellFormedSegment(folderPath[i])
  /\ (selectedConnection.some /\ folderPath # <<>>) =>
       /\ StartsWith(CurrentPrefix, CurrentBase)
       /\ NoDoubleSlash(CurrentPrefix)
       /\ EndsInOneSlash(CurrentPrefix)

\* a folder whose prefix has an empty segment has been entered under a base
\* prefix
C30_Witness ==
  /\ last.name = "handleSelectFolder"
  /\ selectedConnection.some
  /\ CurrentBase # <<>>
  /\ Len(folderPath) = 2
  /\ \E i \in 1..Len(folders) :
       /\ folders[i].segments = folderPath
       /\ StartsWith(folders[i].key, CurrentBase)
       /\ ~NoDoubleSlash(folders[i].key)

====
